---------------------------- MODULE Spec2Model ----------------------------
(***************************************************************************)
(* Model of pkg/lift/data.go (alpine-lift): the alpine-data schema, the    *)
(* MultiString scalar-or-list decoder, InitAlpineData and getSSHDKVMap.    *)
(*                                                                         *)
(* Go values are represented as follows:                                   *)
(*   string             a TLA+ string                                      *)
(*   int, bool          an integer, a boolean                              *)
(*   []T, MultiString   a sequence (Go's nil slice and a slice of length 0 *)
(*                      are both the list of length 0, <<>>)               *)
(*   *T                 <<>> for nil, <<r>> for a pointer to the struct r  *)
(*   struct             a record over the Go field names                   *)
(*   error              "" for nil, otherwise the error's text             *)
(* A YAML document is a tree of nodes, as the decoder hands them to the    *)
(* struct tags and to UnmarshalYAML's unmarshal callback.                  *)
(***************************************************************************)
EXTENDS Integers, Sequences, FiniteSets, TLC

VARIABLES
    pc,        \* position of the caller: "start", "ready", "decoded", "projected"
    Data,      \* l.Data, the *AlpineData: <<>> (nil) or <<record>>
    doc,       \* the document handed to the decoder (a mapping node), NoDoc before
    derr,      \* the error the document decode returned
    kv,        \* the map getSSHDKVMap returned, NoMap before
    panicked,  \* getSSHDKVMap dereferenced a nil SSHDConfig
    origin,    \* how Data was constructed: "none", "InitAlpineData", "zero"
    ms,        \* the target *ms of MultiString.UnmarshalYAML
    msOld,     \* the target as it was when the last call started
    src,       \* the node behind the last call's unmarshal callback
    err,       \* the error the last call returned
    calls      \* number of UnmarshalYAML calls made on ms

vars == <<pc, Data, doc, derr, kv, panicked, origin, ms, msOld, src, err, calls>>
cfgVars == <<pc, Data, doc, derr, kv, panicked, origin>>
msVars == <<ms, msOld, src, err, calls>>

(***************************************************************************)
(* Bounds of the model.                                                    *)
(***************************************************************************)
\* how many top-level keys a generated document mentions at most
MaxKeys == 2
\* how many times UnmarshalYAML is called on the same target
MaxCalls == 2

(***************************************************************************)
(* YAML nodes.  A scalar carries the tag the parser resolved it to, its    *)
(* source text and, for an integer, the number the text denotes.           *)
(***************************************************************************)
Digits == <<"0", "1", "2", "3", "4", "5", "6", "7", "8", "9">>

RECURSIVE Itoa(_)
\* strconv.Itoa: the decimal rendering of an int
Itoa(n) ==
    IF n < 0 THEN "-" \o Itoa(-n)
    ELSE IF n < 10 THEN Digits[n + 1]
    ELSE Itoa(n \div 10) \o Digits[(n % 10) + 1]

Str(s) == [kind |-> "scalar", tag |-> "str", value |-> s, num |-> 0]
Num(n) == [kind |-> "scalar", tag |-> "int", value |-> Itoa(n), num |-> n]
Bool(b) == [kind |-> "scalar", tag |-> "bool",
            value |-> IF b THEN "true" ELSE "false", num |-> 0]
Null == [kind |-> "scalar", tag |-> "null", value |-> "~", num |-> 0]
List(items) == [kind |-> "seq", items |-> items]
Map(entries) == [kind |-> "map", entries |-> entries]

IsNull(n) == n.kind = "scalar" /\ n.tag = "null"

(***************************************************************************)
(* The schema: every struct of data.go with its yaml tags.                 *)
(***************************************************************************)
TString == [k |-> "string", of |-> ""]
TInt == [k |-> "int", of |-> ""]
TBool == [k |-> "bool", of |-> ""]
TStrings == [k |-> "[]string", of |-> ""]
TMultiString == [k |-> "MultiString", of |-> ""]
TMultiStrings == [k |-> "[]MultiString", of |-> ""]
TPtr(name) == [k |-> "ptr", of |-> name]
TSlice(name) == [k |-> "slice", of |-> name]
TStruct(name) == [k |-> "struct", of |-> name]

F(go, yaml, t) == [go |-> go, yaml |-> yaml, t |-> t]

AlpineDataFields == <<
    F("RootPasswd", "password", TString),
    F("MOTD", "motd", TString),
    F("Network", "network", TPtr("NetworkSettings")),
    F("Packages", "packages", TPtr("PackagesConfig")),
    F("DRP", "dr_provision", TPtr("DRProvision")),
    F("SSHDConfig", "sshd", TPtr("SSHD")),
    F("Groups", "groups", TMultiString),
    F("Users", "users", TSlice("User")),
    F("RunCMD", "runcmd", TMultiStrings),
    F("WriteFiles", "write_files", TSlice("WriteFile")),
    F("TimeZone", "timezone", TString),
    F("Keymap", "keymap", TString),
    F("UnLift", "unlift", TBool),
    F("ScratchDisk", "scratch_disk", TString),
    F("Disks", "disks", TSlice("Disk")),
    F("MTA", "mta", TPtr("MTAConfiguration")) >>

UserFields == <<
    F("Name", "name", TString),
    F("Description", "gecos", TString),
    F("HomeDir", "homedir", TString),
    F("Shell", "shell", TString),
    F("NoCreateHomeDir", "no_create_homedir", TBool),
    F("PrimaryGroup", "primary_group", TString),
    F("Groups", "groups", TMultiString),
    F("System", "system", TBool),
    F("SSHAuthorizedKeys", "ssh_authorized_keys", TStrings),
    F("Password", "passwd", TString) >>

\* SSHDFields with the port's yaml tag misspelt
SSHDFieldsPortTag == <<
    F("Port", "Port", TInt),
    F("ListenAddress", "listen_address", TString),
    F("AuthorizedKeys", "authorized_keys", TStrings),
    F("PermitRootLogin", "permit_root_login", TBool),
    F("PermitEmptyPasswords", "permit_empty_passwords", TBool),
    F("PasswordAuthentication", "password_authentication", TBool) >>

SSHDFields == <<
    F("Port", "port", TInt),
    F("ListenAddress", "listen_address", TString),
    F("AuthorizedKeys", "authorized_keys", TStrings),
    F("PermitRootLogin", "permit_root_login", TBool),
    F("PermitEmptyPasswords", "permit_empty_passwords", TBool),
    F("PasswordAuthentication", "password_authentication", TBool) >>

DRProvisionFields == <<
    F("InstallRunner", "install_runner", TBool),
    F("AssetsURL", "assets_url", TString),
    F("Token", "token", TString),
    F("Endpoint", "endpoint", TString),
    F("UUID", "uuid", TString) >>

NetworkSettingsFields == <<
    F("HostName", "hostname", TString),
    F("InterfaceOpts", "interfaces", TString),
    F("ResolvConf", "resolv_conf", TPtr("ResolvConfiguration")),
    F("Proxy", "proxy", TString),
    F("NTP", "ntp", TPtr("NTPConfiguration")) >>

ResolvConfigurationFields == <<
    F("NameServers", "nameservers", TMultiString),
    F("SearchDomains", "search_domains", TMultiString),
    F("Domain", "domain", TString) >>

NTPConfigurationFields == <<
    F("Pools", "pools", TMultiString),
    F("Servers", "servers", TMultiString) >>

MTAConfigurationFields == <<
    F("Root", "root", TString),
    F("Server", "server", TString),
    F("UseTLS", "use_tls", TBool),
    F("UseSTARTTLS", "use_starttls", TBool),
    F("User", "user", TString),
    F("Password", "password", TString),
    F("AuthMethod", "authmethod", TString),
    F("RewriteDomain", "rewrite_domain", TString),
    F("FromLineOverride", "fromline_override", TBool) >>

PackagesConfigFields == <<
    F("Repositories", "repositories", TMultiString),
    F("Update", "update", TBool),
    F("Upgrade", "upgrade", TBool),
    F("Install", "install", TMultiString),
    F("Uninstall", "uninstall", TMultiString) >>

WriteFileFields == <<
    F("Encoding", "encoding", TString),
    F("Content", "content", TString),
    F("ContentURL", "content-url", TString),
    F("Path", "path", TString),
    F("Owner", "owner", TString),
    F("Permissions", "permissions", TString) >>

DiskFields == <<
    F("Device", "device", TString),
    F("FileSystemType", "filesystem", TString),
    F("MountPoint", "mountpoint", TString) >>

Fields(name) ==
    CASE name = "AlpineData" -> AlpineDataFields
      [] name = "User" -> UserFields
      [] name = "SSHD" -> SSHDFields
      [] name = "DRProvision" -> DRProvisionFields
      [] name = "NetworkSettings" -> NetworkSettingsFields
      [] name = "ResolvConfiguration" -> ResolvConfigurationFields
      [] name = "NTPConfiguration" -> NTPConfigurationFields
      [] name = "MTAConfiguration" -> MTAConfigurationFields
      [] name = "PackagesConfig" -> PackagesConfigFields
      [] name = "WriteFile" -> WriteFileFields
      [] name = "Disk" -> DiskFields

\* the fields of struct name, as a set
FieldSet(name) == LET fs == Fields(name) IN {fs[i] : i \in DOMAIN fs}

Nil == <<>>
Ptr(r) == <<r>>

\* the zero value of a field's type: "", 0, false, the nil slice, the nil pointer
ZeroField(t) ==
    CASE t.k = "string" -> ""
      [] t.k = "int" -> 0
      [] t.k = "bool" -> FALSE
      [] t.k = "ptr" -> Nil
      [] OTHER -> <<>>

\* the zero value of a struct: every field at its type's zero value
ZeroStruct(name) ==
    LET fs == FieldSet(name)
    IN  [go \in {f.go : f \in fs} |-> ZeroField((CHOOSE f \in fs : f.go = go).t)]

\* the zero value of any Go type of the schema
Zero(t) == IF t.k = "struct" THEN ZeroStruct(t.of) ELSE ZeroField(t)

(***************************************************************************)
(* The YAML decoder behind yaml.Unmarshal and behind the unmarshal         *)
(* callback: decode(t, n, old) decodes    node n into a Go value of type t *)
(* that currently holds old.  ok is false when the decode reported an      *)
(* error; v is the value the target holds afterwards.                      *)
(*   - a null node sets the target to its zero value, and no custom        *)
(*     unmarshaler is called for it;                                       *)
(*   - a nil pointer is allocated, a non-nil pointer is decoded into in    *)
(*     place, so its struct keeps the fields the mapping does not name;    *)
(*   - a mapping decodes into a struct by yaml tag, unknown keys ignored;  *)
(*   - a sequence replaces a slice, each element decoded into a fresh      *)
(*     zero value, an element that fails being dropped;                    *)
(*   - any non-null scalar decodes into a string as its source text; an    *)
(*     int needs an integer scalar, a bool a boolean scalar.               *)
(***************************************************************************)
ElemType(t) ==
    CASE t.k = "[]string" -> TString
      [] t.k = "[]MultiString" -> TMultiString
      [] t.k = "slice" -> TStruct(t.of)

IsSliceType(t) == t.k \in {"[]string", "[]MultiString", "slice"}

Good(v) == [ok |-> TRUE, v |-> v]
Bad(v) == [ok |-> FALSE, v |-> v]

(***************************************************************************)
(* Variants of UnmarshalYAML with one slip each, against which the claims  *)
(* are tried.                                                              *)
(***************************************************************************)
RECURSIVE Dedup(_)
Dedup(xs) ==
    IF xs = <<>> THEN <<>>
    ELSE LET r == Dedup(SubSeq(xs, 1, Len(xs) - 1))
         IN  IF \E j \in DOMAIN r : r[j] = xs[Len(xs)]
             THEN r ELSE Append(r, xs[Len(xs)])

\* drops repeated elements of a decoded list
UnmarshalYAMLDedup(target, unmarshal) ==
    IF unmarshal["[]string"].err = ""
    THEN [err |-> "", ms |-> Dedup(unmarshal["[]string"].v)]
    ELSE IF unmarshal["string"].err = ""
    THEN [err |-> "", ms |-> <<unmarshal["string"].v>>]
    ELSE [err |-> unmarshal["string"].err, ms |-> target]

\* returns the list attempt's error without trying a string
UnmarshalYAMLNoFallback(target, unmarshal) ==
    IF unmarshal["[]string"].err = ""
    THEN [err |-> "", ms |-> unmarshal["[]string"].v]
    ELSE [err |-> unmarshal["[]string"].err, ms |-> target]

\* does not look at the string attempt's error
UnmarshalYAMLSwallowsError(target, unmarshal) ==
    IF unmarshal["[]string"].err = ""
    THEN [err |-> "", ms |-> unmarshal["[]string"].v]
    ELSE [err |-> "", ms |-> <<unmarshal["string"].v>>]

\* appends to the target instead of assigning it
UnmarshalYAMLAppends(target, unmarshal) ==
    IF unmarshal["[]string"].err = ""
    THEN [err |-> "", ms |-> target \o unmarshal["[]string"].v]
    ELSE IF unmarshal["string"].err = ""
    THEN [err |-> "", ms |-> Append(target, unmarshal["string"].v)]
    ELSE [err |-> unmarshal["string"].err, ms |-> target]

\* assigns a decoded list only when it is not empty
UnmarshalYAMLKeepsOnEmpty(target, unmarshal) ==
    IF unmarshal["[]string"].err = ""
    THEN [err |-> "",
          ms |-> IF unmarshal["[]string"].v = <<>> THEN target
                 ELSE unmarshal["[]string"].v]
    ELSE IF unmarshal["string"].err = ""
    THEN [err |-> "", ms |-> <<unmarshal["string"].v>>]
    ELSE [err |-> unmarshal["string"].err, ms |-> target]

\* func (ms *MultiString) UnmarshalYAML(unmarshal func(interface{}) error) error
\* target is *ms on entry.  unmarshal[t] is what the callback does when it is
\* called with a pointer to a fresh variable of type t: the error it returns
\* and the value it leaves in the variable.  The result is the returned error
\* and *ms on return.
UnmarshalYAML(target, unmarshal) ==
    LET first == unmarshal["[]string"]              \* err := unmarshal(&values)
    IN  IF first.err # ""
        THEN LET second == unmarshal["string"]      \* err := unmarshal(&s)
             IN  IF second.err # ""
                 THEN [err |-> second.err, ms |-> target]   \* return err
                 ELSE [err |-> "", ms |-> <<second.v>>]     \* *ms = []string{s}
        ELSE [err |-> "", ms |-> first.v]                   \* *ms = values

RECURSIVE decode(_, _, _)

\* the callback the decoder hands to UnmarshalYAML for node n
Callback(n) ==
    [k \in {"[]string", "string"} |->
        LET t == [k |-> k, of |-> ""]
            r == decode(t, n, ZeroField(t))
        IN  [err |-> IF r.ok THEN "" ELSE "cannot unmarshal into " \o k,
             v |-> r.v]]

decode(t, n, old) ==
    IF IsNull(n) THEN Good(Zero(t))
    ELSE IF t.k = "ptr" THEN
        LET r == decode(TStruct(t.of), n,
                        IF old = Nil THEN ZeroStruct(t.of) ELSE old[1])
        IN  [ok |-> r.ok, v |-> Ptr(r.v)]
    ELSE IF t.k = "MultiString" THEN
        LET r == UnmarshalYAML(old, Callback(n))
        IN  [ok |-> r.err = "", v |-> r.ms]
    ELSE IF t.k = "struct" THEN
        IF n.kind # "map" THEN Bad(old)
        ELSE LET rs == [go \in DOMAIN old |->
                         LET fld == CHOOSE f \in FieldSet(t.of) : f.go = go
                         IN  IF fld.yaml \in DOMAIN n.entries
                             THEN decode(fld.t, n.entries[fld.yaml], old[go])
                             ELSE Good(old[go])]
             IN  [ok |-> \A go \in DOMAIN rs : rs[go].ok,
                  v |-> [go \in DOMAIN rs |-> rs[go].v]]
    ELSE IF IsSliceType(t) THEN
        IF n.kind # "seq" THEN Bad(old)
        ELSE LET rs == [i \in 1..Len(n.items) |->
                         LET et == ElemType(t)
                         IN  decode(et, n.items[i], Zero(et))]
                 kept == SelectSeq(rs, LAMBDA r : r.ok)
             IN  [ok |-> \A i \in DOMAIN rs : rs[i].ok,
                  v |-> [i \in DOMAIN kept |-> kept[i].v]]
    ELSE IF n.kind # "scalar" THEN Bad(old)
    ELSE IF t.k = "string" THEN Good(n.value)
    ELSE IF t.k = "int" THEN (IF n.tag = "int" THEN Good(n.num) ELSE Bad(old))
    ELSE (IF n.tag = "bool" THEN Good(n.value = "true") ELSE Bad(old))

(***************************************************************************)
(* InitAlpineData, getSSHDKVMap, boolToYesNo.                              *)
(***************************************************************************)
\* InitSSHD with password authentication left on
InitSSHDPasswordAuthentication ==
    [ZeroStruct("SSHD") EXCEPT
        !.Port = 22,
        !.ListenAddress = "0.0.0.0",
        !.PermitRootLogin = TRUE,
        !.PermitEmptyPasswords = FALSE,
        !.PasswordAuthentication = TRUE]

\* InitSSHD without the listen address
InitSSHDNoListenAddress ==
    [ZeroStruct("SSHD") EXCEPT
        !.Port = 22,
        !.PermitRootLogin = TRUE,
        !.PermitEmptyPasswords = FALSE,
        !.PasswordAuthentication = FALSE]

\* the SSHD literal of InitAlpineData
InitSSHD ==
    [ZeroStruct("SSHD") EXCEPT
        !.Port = 22,
        !.ListenAddress = "0.0.0.0",
        !.PermitRootLogin = TRUE,
        !.PermitEmptyPasswords = FALSE,
        !.PasswordAuthentication = FALSE]

\* func InitAlpineData() *AlpineData: the composite literal; a field the
\* literal does not name is at its zero value
InitAlpineData ==
    Ptr([ZeroStruct("AlpineData") EXCEPT
        !.UnLift = TRUE,
        !.TimeZone = "UTC",
        !.Keymap = "us us",
        !.Network = Ptr([ZeroStruct("NetworkSettings") EXCEPT
            !.HostName = "alpine"]),
        !.SSHDConfig = Ptr(InitSSHD),
        !.DRP = Ptr([ZeroStruct("DRProvision") EXCEPT
            !.InstallRunner = TRUE]),
        !.Packages = Ptr([ZeroStruct("PackagesConfig") EXCEPT
            !.Repositories = <<"http://dl-cdn.alpinelinux.org/alpine/v3.8/main",
                               "http://dl-cdn.alpinelinux.org/alpine/v3.8/community">>])])

\* boolToYesNo returning Go's rendering of the boolean
boolToYesNoTrueFalse(b) == IF b THEN "true" ELSE "false"

\* func boolToYesNo(b bool) string
boolToYesNo(b) == IF b THEN "yes" ELSE "no"

\* getSSHDKVMap with two of the boolean fields exchanged
getSSHDKVMapSwapped(data) ==
    LET sshd == data[1].SSHDConfig[1]
    IN  [Port |-> Itoa(sshd.Port),
         ListenAddress |-> sshd.ListenAddress,
         PermitRootLogin |-> boolToYesNo(sshd.PermitEmptyPasswords),
         PermitEmptyPasswords |-> boolToYesNo(sshd.PermitRootLogin),
         PasswordAuthentication |-> boolToYesNo(sshd.PasswordAuthentication)]

\* func (l *Lift) getSSHDKVMap() map[string]string, for a non-nil
\* l.Data.SSHDConfig
getSSHDKVMap(data) ==
    LET sshd == data[1].SSHDConfig[1]
    IN  [Port |-> Itoa(sshd.Port),
         ListenAddress |-> sshd.ListenAddress,
         PermitRootLogin |-> boolToYesNo(sshd.PermitRootLogin),
         PermitEmptyPasswords |-> boolToYesNo(sshd.PermitEmptyPasswords),
         PasswordAuthentication |-> boolToYesNo(sshd.PasswordAuthentication)]

(***************************************************************************)
(* The inputs: the documents handed to the decoder and the nodes handed to *)
(* UnmarshalYAML.                                                          *)
(***************************************************************************)
E(key, node) == [key |-> key, node |-> node]

Strs(xs) == List([i \in 1..Len(xs) |-> Str(xs[i])])

\* top-level entries a document may hold
Entries == {
    E("groups", Str("wheel")),
    E("groups", Strs(<<"wheel", "docker">>)),
    E("groups", Strs(<<>>)),
    E("groups", Strs(<<"wheel", "wheel">>)),
    E("groups", Num(42)),
    E("groups", Map("name" :> Str("wheel"))),
    E("groups", Null),
    E("sshd", Map("port" :> Num(2222))),
    E("sshd", Map("port" :> Num(-1) @@ "permit_empty_passwords" :> Bool(TRUE))),
    E("sshd", Map("port" :> Num(8022) @@ "listen_address" :> Str("127.0.0.1")
                  @@ "permit_root_login" :> Bool(FALSE)
                  @@ "password_authentication" :> Bool(TRUE))),
    E("sshd", Map("port" :> Str("ssh"))),
    E("sshd", Null),
    E("packages", Map("install" :> Str("vim"))),
    E("packages", Map("repositories" :> Str("http://mirror/main"))),
    E("packages", Map("repositories" :> Strs(<<>>)
                      @@ "install" :> Strs(<<"vim", "git">>)
                      @@ "uninstall" :> Str("nano") @@ "update" :> Bool(TRUE))),
    E("network", Map("hostname" :> Str("box"))),
    E("network", Map("resolv_conf" :> Map("nameservers" :> Str("1.1.1.1")
                      @@ "search_domains" :> Strs(<<"lan", "local">>)))),
    E("network", Map("ntp" :> Map("pools" :> Strs(<<"pool.ntp.org">>)
                      @@ "servers" :> Str("time.lan")))),
    E("users", List(<<Map("name" :> Str("bob") @@ "groups" :> Str("wheel"))>>)),
    E("users", List(<<Map("name" :> Str("bob")
                          @@ "groups" :> Strs(<<"wheel", "docker">>)),
                      Map("name" :> Str("eve"))>>)),
    E("runcmd", List(<<Str("reboot"), Strs(<<"echo", "hi">>)>>)),
    E("runcmd", List(<<Map("cmd" :> Str("reboot"))>>)),
    E("timezone", Str("CET")),
    E("unlift", Bool(FALSE)),
    E("mta", Map("server" :> Str("smtp.lan") @@ "use_tls" :> Bool(TRUE))) }

RECURSIVE DocEntries(_)
\* the mappings of at most k entries with distinct keys
DocEntries(k) ==
    IF k = 0 THEN {[key \in {} |-> Null]}
    ELSE LET smaller == DocEntries(k - 1)
         IN  smaller \cup
             {d @@ (e.key :> e.node) : <<d, e>> \in
                 {p \in smaller \X Entries : p[2].key \notin DOMAIN p[1]}}

Documents == {Map(d) : d \in DocEntries(MaxKeys)}

\* the nodes UnmarshalYAML is called for (the decoder never calls it for null)
Sources == {
    Str("wheel"),
    Str(""),
    Strs(<<>>),
    Strs(<<"wheel">>),
    Strs(<<"wheel", "docker">>),
    Strs(<<"wheel", "wheel">>),
    Strs(<<"docker", "wheel", "adm">>),
    Num(42),
    Bool(TRUE),
    List(<<Num(1), Num(2)>>),
    Map("name" :> Str("wheel")),
    List(<<Str("wheel"), Map("name" :> Str("docker"))>>),
    List(<<Strs(<<"wheel">>)>>) }

NoDoc == Null
NoSrc == Null
NoMap == <<>>

(***************************************************************************)
(* The program.  A run either builds a configuration (construction, then   *)
(* the document decode, then the SSH projection) or calls UnmarshalYAML on *)
(* a MultiString of its own, which holds nothing or the default            *)
(* repositories; the two share no state.                                   *)
(***************************************************************************)
Init ==
    /\ pc = "start" /\ Data = Nil /\ doc = NoDoc /\ derr = ""
    /\ kv = NoMap /\ panicked = FALSE /\ origin = "none"
    /\ ms \in {<<>>, InitAlpineData[1].Packages[1].Repositories}
    /\ msOld = ms /\ src = NoSrc /\ err = "" /\ calls = 0

\* alpineData := InitAlpineData()
CallInitAlpineData ==
    /\ pc = "start" /\ calls = 0
    /\ Data' = InitAlpineData
    /\ origin' = "InitAlpineData"
    /\ pc' = "ready"
    /\ UNCHANGED <<doc, derr, kv, panicked>>
    /\ UNCHANGED msVars

\* alpineData := &AlpineData{}
NewAlpineData ==
    /\ pc = "start" /\ calls = 0
    /\ Data' = Ptr(ZeroStruct("AlpineData"))
    /\ origin' = "zero"
    /\ pc' = "ready"
    /\ UNCHANGED <<doc, derr, kv, panicked>>
    /\ UNCHANGED msVars

\* err := yaml.Unmarshal(document, alpineData)
Unmarshal(d) ==
    /\ pc = "ready"
    /\ LET r == decode(TPtr("AlpineData"), d, Data)
       IN  /\ Data' = r.v
           /\ derr' = IF r.ok THEN "" ELSE "yaml: unmarshal errors"
    /\ doc' = d
    /\ pc' = "decoded"
    /\ UNCHANGED <<kv, panicked, origin>>
    /\ UNCHANGED msVars

\* l.getSSHDKVMap(): dereferences l.Data.SSHDConfig
CallGetSSHDKVMap ==
    /\ pc \in {"ready", "decoded"}
    /\ IF Data[1].SSHDConfig = Nil
       THEN panicked' = TRUE /\ kv' = kv
       ELSE panicked' = FALSE /\ kv' = getSSHDKVMap(Data)
    /\ pc' = "projected"
    /\ UNCHANGED <<Data, doc, derr, origin>>
    /\ UNCHANGED msVars

\* err := ms.UnmarshalYAML(unmarshal), unmarshal decoding node n
CallUnmarshalYAML(n) ==
    /\ pc = "start" /\ calls < MaxCalls
    /\ LET r == UnmarshalYAML(ms, Callback(n))
       IN  ms' = r.ms /\ err' = r.err
    /\ msOld' = ms
    /\ src' = n
    /\ calls' = calls + 1
    /\ UNCHANGED cfgVars

Next ==
    \/ CallInitAlpineData
    \/ NewAlpineData
    \/ \E d \in Documents : Unmarshal(d)
    \/ CallGetSSHDKVMap
    \/ \E n \in Sources : CallUnmarshalYAML(n)

Spec == Init /\ [][Next]_vars

(***************************************************************************)
(* What the claims compare the program with: the values written out, and   *)
(* readings of a document that do not go through the decoder.              *)
(***************************************************************************)
DefaultRepositories ==
    <<"http://dl-cdn.alpinelinux.org/alpine/v3.8/main",
      "http://dl-cdn.alpinelinux.org/alpine/v3.8/community">>

ZeroSSHD ==
    [Port |-> 0, ListenAddress |-> "", AuthorizedKeys |-> <<>>,
     PermitRootLogin |-> FALSE, PermitEmptyPasswords |-> FALSE,
     PasswordAuthentication |-> FALSE]

ExpectedDefaults ==
    [RootPasswd |-> "", MOTD |-> "",
     Network |-> <<[HostName |-> "alpine", InterfaceOpts |-> "",
                    ResolvConf |-> <<>>, Proxy |-> "", NTP |-> <<>>]>>,
     Packages |-> <<[Repositories |-> DefaultRepositories, Update |-> FALSE,
                     Upgrade |-> FALSE, Install |-> <<>>, Uninstall |-> <<>>]>>,
     DRP |-> <<[InstallRunner |-> TRUE, AssetsURL |-> "", Token |-> "",
                Endpoint |-> "", UUID |-> ""]>>,
     SSHDConfig |-> <<[Port |-> 22, ListenAddress |-> "0.0.0.0",
                       AuthorizedKeys |-> <<>>, PermitRootLogin |-> TRUE,
                       PermitEmptyPasswords |-> FALSE,
                       PasswordAuthentication |-> FALSE]>>,
     Groups |-> <<>>, Users |-> <<>>, RunCMD |-> <<>>, WriteFiles |-> <<>>,
     TimeZone |-> "UTC", Keymap |-> "us us", UnLift |-> TRUE,
     ScratchDisk |-> "", Disks |-> <<>>, MTA |-> <<>>]

\* the decimal text of the ports the documents and the defaults use
DecimalText ==
    (0 :> "0") @@ (22 :> "22") @@ (2222 :> "2222") @@ (8022 :> "8022")
    @@ ((-1) :> "-1")

IsStr(n) == n.kind = "scalar" /\ n.tag = "str"
IsListOfStr(n) == n.kind = "seq" /\ \A i \in DOMAIN n.items : IsStr(n.items[i])
Texts(n) == [i \in DOMAIN n.items |-> n.items[i].value]

\* a mapping, or a list that holds a mapping or a list
Undecodable(n) ==
    \/ n.kind = "map"
    \/ n.kind = "seq" /\ \E i \in DOMAIN n.items : n.items[i].kind # "scalar"

Absent == [kind |-> "absent"]
Get(n, key) ==
    IF n.kind = "map" /\ key \in DOMAIN n.entries THEN n.entries[key] ELSE Absent
Item(n, i) ==
    IF n.kind = "seq" /\ i \in DOMAIN n.items THEN n.items[i] ELSE Absent

\* the list a MultiString field holds for the node the document gives it:
\* before when the document leaves the field out
ListFor(n, before) ==
    IF n.kind = "absent" THEN before
    ELSE IF n.kind = "seq" THEN Texts(n)
    ELSE IF IsNull(n) THEN <<>>
    ELSE <<n.value>>

IsLeaf(t) == t.k \in {"string", "int", "bool", "MultiString", "[]string"}
LeafFor(t, n) ==
    IF IsNull(n) THEN (IF t.k = "string" THEN "" ELSE IF t.k = "int" THEN 0
                       ELSE IF t.k = "bool" THEN FALSE ELSE <<>>)
    ELSE IF t.k = "string" THEN n.value
    ELSE IF t.k = "int" THEN n.num
    ELSE IF t.k = "bool" THEN n.value = "true"
    ELSE ListFor(n, <<>>)

Called == calls > 0
Decoded == pc = "decoded" /\ derr = ""
OnlySSHDPort == Map("sshd" :> Map("port" :> Num(2222)))

(***************************************************************************)
(* MultiString.UnmarshalYAML                                               *)
(***************************************************************************)
\* C1: when the source is a list of N strings (N >= 0, the empty list
\* included), UnmarshalYAML returns no error and the target is exactly that
\* list: same length, same order, same elements, duplicates kept.
C1_ListOfStringsDecodesToItself ==
    (Called /\ IsListOfStr(src)) =>
        /\ err = ""
        /\ Len(ms) = Len(src.items)
        /\ \A i \in DOMAIN src.items : ms[i] = src.items[i].value

C1_Witness ==
    /\ Called /\ src = Strs(<<"wheel", "wheel">>)
    /\ msOld = DefaultRepositories
    /\ ms = <<"wheel", "wheel">> /\ err = ""

\* C2: when the source is a single string S, UnmarshalYAML returns no error
\* and the target is the one-element list [S]; a document that holds only
\* groups: "wheel" decodes to Groups = ["wheel"].
C2_StringDecodesToSingleton ==
    /\ (Called /\ IsStr(src)) => (err = "" /\ ms = <<src.value>>)
    /\ (pc = "decoded" /\ doc = Map("groups" :> Str("wheel"))) =>
           (derr = "" /\ Data[1].Groups = <<"wheel">>)

C2_Witness ==
    /\ pc = "decoded" /\ origin = "zero"
    /\ doc = Map("groups" :> Str("wheel"))
    /\ Data[1].Groups = <<"wheel">>

C10_ReplacesNeverAppends ==
    Called =>
        IF err = ""
        THEN ms = (IF src.kind = "seq" THEN Texts(src) ELSE <<src.value>>)
        ELSE ms = msOld

C10_Witness ==
    /\ Called /\ msOld = DefaultRepositories
    /\ src = Strs(<<"wheel", "docker">>)
    /\ ms = <<"wheel", "docker">>

(***************************************************************************)
(* InitAlpineData and getSSHDKVMap                                         *)
(***************************************************************************)
\* C5: InitAlpineData returns a configuration with unlift true, timezone
\* "UTC", keymap "us us", hostname "alpine", sshd port 22 on "0.0.0.0" with
\* root login permitted, empty passwords forbidden and password
\* authentication off, the agent's install flag on, the two repository URLs,
\* and every other field at its zero value (mta, resolv_conf, ntp absent).
C5_InitAlpineDataDefaults ==
    (origin = "InitAlpineData" /\ doc = NoDoc) => Data = <<ExpectedDefaults>>

C5_Witness ==
    /\ pc = "ready" /\ origin = "InitAlpineData"
    /\ Data[1].SSHDConfig[1].Port = 22
    /\ Data[1].Packages[1].Repositories = DefaultRepositories
    /\ Data[1].MTA = <<>>

\* C6: getSSHDKVMap on the sshd section InitAlpineData produced gives exactly
\* Port "22", ListenAddress "0.0.0.0", PermitRootLogin "yes",
\* PermitEmptyPasswords "no", PasswordAuthentication "no", and no other key.
C6_DefaultSSHDProjection ==
    (pc = "projected" /\ origin = "InitAlpineData" /\ doc = NoDoc) =>
        /\ ~panicked
        /\ DOMAIN kv = {"Port", "ListenAddress", "PermitRootLogin",
                        "PermitEmptyPasswords", "PasswordAuthentication"}
        /\ kv.Port = "22"
        /\ kv.ListenAddress = "0.0.0.0"
        /\ kv.PermitRootLogin = "yes"
        /\ kv.PermitEmptyPasswords = "no"
        /\ kv.PasswordAuthentication = "no"

C6_Witness ==
    /\ pc = "projected" /\ origin = "InitAlpineData" /\ doc = NoDoc
    /\ kv.Port = "22" /\ kv.PermitRootLogin = "yes"

\* C9: a call of getSSHDKVMap on a present sshd section returns a map with
\* exactly the five keys, Port the decimal text of the port, ListenAddress
\* the address unchanged, each boolean "yes" when true and "no" when false;
\* the map is a function of the section alone and the call leaves the
\* configuration as it was.
C9_SSHDProjection ==
    [][(pc # "projected" /\ pc' = "projected" /\ Data[1].SSHDConfig # Nil) =>
        LET sshd == Data[1].SSHDConfig[1]
            yesNo == [b \in BOOLEAN |-> IF b THEN "yes" ELSE "no"]
        IN  /\ ~panicked'
            /\ Data' = Data
            /\ kv' = [Port |-> DecimalText[sshd.Port],
                      ListenAddress |-> sshd.ListenAddress,
                      PermitRootLogin |-> yesNo[sshd.PermitRootLogin],
                      PermitEmptyPasswords |-> yesNo[sshd.PermitEmptyPasswords],
                      PasswordAuthentication |->
                          yesNo[sshd.PasswordAuthentication]]]_vars

C9_Witness ==
    /\ pc = "projected" /\ ~panicked /\ doc # NoDoc
    /\ Data[1].SSHDConfig[1].Port = 8022
    /\ kv.Port = "8022" /\ kv.ListenAddress = "127.0.0.1"
    /\ kv.PermitRootLogin = "no" /\ kv.PasswordAuthentication = "yes"

(***************************************************************************)
(* The document decode                                                     *)
(***************************************************************************)
\* the list packages.repositories held before the decode
RepositoriesBefore ==
    IF origin = "InitAlpineData" THEN DefaultRepositories ELSE <<>>

\* every MultiString field of the decoded configuration holds the list the
\* document gives it: the items of a list, [S] for a scalar S, and for a
\* field the document leaves out the given list (repositories) or the empty
\* list (every other field)
ListFieldsHold(repositoriesLeftOut) ==
    LET D == Data[1]
        network == Get(doc, "network")
        packages == Get(doc, "packages")
    IN  /\ D.Groups = ListFor(Get(doc, "groups"), <<>>)
        /\ Len(D.Users) = (IF Get(doc, "users").kind = "seq"
                           THEN Len(Get(doc, "users").items) ELSE 0)
        /\ \A i \in DOMAIN D.Users :
               D.Users[i].Groups =
                   ListFor(Get(Item(Get(doc, "users"), i), "groups"), <<>>)
        /\ Len(D.RunCMD) = (IF Get(doc, "runcmd").kind = "seq"
                            THEN Len(Get(doc, "runcmd").items) ELSE 0)
        /\ \A i \in DOMAIN D.RunCMD :
               D.RunCMD[i] = ListFor(Item(Get(doc, "runcmd"), i), <<>>)
        /\ D.Packages # Nil =>
               /\ D.Packages[1].Repositories =
                      ListFor(Get(packages, "repositories"), repositoriesLeftOut)
               /\ D.Packages[1].Install = ListFor(Get(packages, "install"), <<>>)
               /\ D.Packages[1].Uninstall =
                      ListFor(Get(packages, "uninstall"), <<>>)
        /\ (D.Network # Nil /\ D.Network[1].ResolvConf # Nil) =>
               LET resolv == Get(network, "resolv_conf")
               IN  /\ D.Network[1].ResolvConf[1].NameServers =
                          ListFor(Get(resolv, "nameservers"), <<>>)
                   /\ D.Network[1].ResolvConf[1].SearchDomains =
                          ListFor(Get(resolv, "search_domains"), <<>>)
        /\ (D.Network # Nil /\ D.Network[1].NTP # Nil) =>
               LET ntp == Get(network, "ntp")
               IN  /\ D.Network[1].NTP[1].Pools =
                          ListFor(Get(ntp, "pools"), <<>>)
                   /\ D.Network[1].NTP[1].Servers =
                          ListFor(Get(ntp, "servers"), <<>>)

\* C4 as stated: after a successful decode every MultiString field holds a
\* list, whether the document gave it zero, one or many values or left it
\* out, and a field left out holds the empty list.
C4_Original == Decoded => ListFieldsHold(<<>>)

\* C4 as amended: after a successful decode every MultiString field holds a
\* list, whether the document gave it zero, one or many values or left it
\* out; a field left out holds the list the target held before the decode:
\* the empty list, except packages.repositories of a configuration built by
\* InitAlpineData, which holds the two default repositories.
C4_ListFieldsAlwaysLists == Decoded => ListFieldsHold(RepositoriesBefore)

C4_Witness ==
    /\ Decoded /\ origin = "InitAlpineData"
    /\ doc = Map("groups" :> Str("wheel") @@
                 "packages" :> Map("install" :> Str("vim")))
    /\ Data[1].Groups = <<"wheel">>
    /\ Data[1].Packages[1].Install = <<"vim">>
    /\ Data[1].Packages[1].Uninstall = <<>>
    /\ Data[1].Packages[1].Repositories = DefaultRepositories

\* C7: after a successful decode over the configuration InitAlpineData
\* returned, every field the document does not mention, at the top level and
\* inside a section the document gives as a mapping, keeps its default
\* value, and every string, integer, boolean or list field it mentions holds
\* the document's value.
C7_DecodeOverDefaultsKeepsUnset ==
    (Decoded /\ origin = "InitAlpineData") =>
        LET D == Data[1]
            top == FieldSet("AlpineData")
        IN  /\ \A f \in top :
                   Get(doc, f.yaml).kind = "absent" =>
                       D[f.go] = ExpectedDefaults[f.go]
            /\ \A f \in top :
                   (Get(doc, f.yaml).kind # "absent" /\ IsLeaf(f.t)) =>
                       D[f.go] = LeafFor(f.t, Get(doc, f.yaml))
            /\ \A f \in top :
                   (f.t.k = "ptr" /\ Get(doc, f.yaml).kind = "map"
                                 /\ ExpectedDefaults[f.go] # Nil) =>
                       \A g \in FieldSet(f.t.of) :
                           LET n == Get(Get(doc, f.yaml), g.yaml)
                           IN  /\ n.kind = "absent" =>
                                      D[f.go][1][g.go] =
                                          ExpectedDefaults[f.go][1][g.go]
                               /\ (n.kind # "absent" /\ IsLeaf(g.t)) =>
                                      D[f.go][1][g.go] = LeafFor(g.t, n)

C7_Witness ==
    /\ Decoded /\ origin = "InitAlpineData" /\ doc = OnlySSHDPort
    /\ Data[1].SSHDConfig[1].Port = 2222
    /\ Data[1].SSHDConfig[1].ListenAddress = "0.0.0.0"
    /\ Data[1].SSHDConfig[1].PermitRootLogin
    /\ Data[1].TimeZone = "UTC" /\ Data[1].Keymap = "us us"
    /\ Data[1].Network[1].HostName = "alpine"
    /\ Data[1].Packages[1].Repositories = DefaultRepositories

\* C8: decoding sshd: {port: 2222} into a fresh configuration gives an sshd
\* section with port 2222 and every other field at its zero value; in
\* general a decode into a fresh configuration leaves every sshd field the
\* document does not mention at its zero value, never at InitAlpineData's.
C8_DecodeAloneBringsNoDefaults ==
    /\ (pc = "decoded" /\ origin = "zero" /\ doc = OnlySSHDPort) =>
           /\ derr = ""
           /\ Data[1].SSHDConfig = <<[ZeroSSHD EXCEPT !.Port = 2222]>>
    /\ (Decoded /\ origin = "zero" /\ Get(doc, "sshd").kind = "map") =>
           \A g \in FieldSet("SSHD") :
               Get(Get(doc, "sshd"), g.yaml).kind = "absent" =>
                   Data[1].SSHDConfig[1][g.go] = ZeroSSHD[g.go]

C8_Witness ==
    /\ Decoded /\ origin = "zero" /\ doc = OnlySSHDPort
    /\ Data[1].SSHDConfig[1].Port = 2222
    /\ Data[1].SSHDConfig[1].ListenAddress = ""
    /\ ~Data[1].SSHDConfig[1].PermitRootLogin
=============================================================================
